---- MODULE Spec2Model ----
(***************************************************************************)
(* Model of TerminalService (terminalService.ts): the ordered list of      *)
(* terminal tabs, the active tab index, the shutdown latch and the events  *)
(* the service fires.  Indices are 0-based as in the source; a TLA+        *)
(* sequence element i is the source's element i-1.                         *)
(***************************************************************************)
EXTENDS Integers, Sequences, FiniteSets, TLC

\* Number of terminal instances the instance factory hands out in one run.
MaxInstances == 3

\* The panel this service owns, and the values getActivePanel() can yield.
TERMINAL_PANEL_ID == "terminal"
PanelIds == {TERMINAL_PANEL_ID, "other", "none"}

\* A launch config is modelled by its `name`; "" is the config without a
\* name, the default `{}`.
DefaultLaunchConfig == ""
LaunchConfigs == {DefaultLaunchConfig, "sh"}

\* Most showPanel continuations (open requests and timers) outstanding at once.
MaxPending == 2

\* Arguments callers pass to the index-taking operations: one below and one
\* above every index that can be valid.
IndexInputs == -1 .. MaxInstances

VARIABLES
    terminalTabs,       \* _terminalTabs: sequence of tab records
    activeTabIndex,     \* _activeTabIndex
    isShuttingDown,     \* _isShuttingDown
    nextId,             \* id the instance factory gives the next instance
    confirmOnExit,      \* configHelper.config.confirmOnExit
    activePanel,        \* what _panelService.getActivePanel() reports
    prompt,             \* "idle" | "pending": _showTerminalCloseConfirmation in flight
    vetoResult,         \* what the last _onWillShutdown decided: "none" | "veto" | "proceed"
    fired,              \* events fired and external calls made by the last operation
    last,               \* the last operation and its argument
    phase,              \* "starting" (constructed) | "running" | "shutdown" (_onShutdown ran)
    experimentalRestore,\* configHelper.config.experimentalRestore
    storage,            \* _storageService value under TERMINAL_STATE_STORAGE_KEY, as tokens
    shellLaunchConfig,  \* instance id -> the instance's shellLaunchConfig
    savedLayout,        \* history: the tabs' launch configs when _onShutdown stored them
    openRequests,       \* showPanel's openPanel promises not yet resolved: their focus flags
    timers              \* showPanel's setTimeout(..., 0) callbacks not yet run

vars == <<terminalTabs, activeTabIndex, isShuttingDown, nextId, confirmOnExit,
          activePanel, prompt, vetoResult, fired, last, phase,
          experimentalRestore, storage, shellLaunchConfig, savedLayout,
          openRequests, timers>>

\* `null`/`undefined` for an instance reference; instance ids start at 1.
NoInstance == 0

\* `null` for a tab reference (tab ids start at 1).
NoTab == [id |-> 0, terminalInstances |-> <<>>, activeInstanceIndex |-> 0, visible |-> FALSE]

\* The service's mutable fields and what it reads from the panel service,
\* as one value the handlers transform.
Cur ==
    [tabs |-> terminalTabs, activeTabIndex |-> activeTabIndex,
     isShuttingDown |-> isShuttingDown, activePanel |-> activePanel,
     confirmOnExit |-> confirmOnExit, prompt |-> prompt,
     vetoResult |-> vetoResult, fired |-> <<>>]

\* Emitter.fire / a call to an external collaborator, appended to the log.
Fire(s, type, arg) ==
    [s EXCEPT !.fired = Append(@, [type |-> type, arg |-> arg])]

\* Number of log entries of a type.
Count(log, type) ==
    Cardinality({i \in 1 .. Len(log) : log[i].type = type})

\* Array.prototype.splice(index, 1) on a sequence, index 0-based.
Splice(seq, index) ==
    [i \in 1 .. Len(seq) - 1 |-> IF i <= index THEN seq[i] ELSE seq[i + 1]]

\* tabs.forEach((t, i) => t.setVisible(i === index))
SetVisible(tabs, index) ==
    [i \in 1 .. Len(tabs) |-> [tabs[i] EXCEPT !.visible = (i - 1 = index)]]

\* ISerialPortTab.activeInstance
TabActiveInstance(tab) ==
    IF tab.activeInstanceIndex >= 0 /\ tab.activeInstanceIndex < Len(tab.terminalInstances)
    THEN tab.terminalInstances[tab.activeInstanceIndex + 1]
    ELSE NoInstance

\* terminalInstances: every tab's instances concatenated in tab order.
RECURSIVE Flatten(_)
Flatten(tabs) ==
    IF tabs = <<>> THEN <<>>
    ELSE Head(tabs).terminalInstances \o Flatten(Tail(tabs))

getActiveTab(s) ==
    IF s.activeTabIndex < 0 \/ s.activeTabIndex >= Len(s.tabs)
    THEN NoTab
    ELSE s.tabs[s.activeTabIndex + 1]

getActiveInstance(s) ==
    LET tab == getActiveTab(s)
    IN  IF tab = NoTab THEN NoInstance ELSE TabActiveInstance(tab)

\* Mutant of setActiveTabByIndex: the guard lets the index one past the end
\* through (`>` for `>=`).
setActiveTabByIndex_GuardOffByOne(s, tabIndex) ==
    IF tabIndex > Len(s.tabs) THEN s
    ELSE LET didTabChange == s.activeTabIndex # tabIndex
             s1 == [s EXCEPT !.activeTabIndex = tabIndex,
                             !.tabs = SetVisible(s.tabs, tabIndex)]
         IN  IF didTabChange THEN Fire(s1, "onActiveTabChanged", 0) ELSE s1

\* Mutant of setActiveTabByIndex: the event is fired without looking at
\* didTabChange.
setActiveTabByIndex_AlwaysFire(s, tabIndex) ==
    IF tabIndex >= Len(s.tabs) THEN s
    ELSE Fire([s EXCEPT !.activeTabIndex = tabIndex,
                        !.tabs = SetVisible(s.tabs, tabIndex)],
              "onActiveTabChanged", 0)

setActiveTabByIndex(s, tabIndex) ==
    IF tabIndex >= Len(s.tabs) THEN s
    ELSE LET didTabChange == s.activeTabIndex # tabIndex
             s1 == [s EXCEPT !.activeTabIndex = tabIndex,
                             !.tabs = SetVisible(s.tabs, tabIndex)]
         IN  IF didTabChange THEN Fire(s1, "onActiveTabChanged", 0) ELSE s1

\* The result of _getInstanceFromGlobalInstanceIndex when it returns null.
NoQuery == [found |-> FALSE, tabIndex |-> -1, instance |-> NoInstance, localInstanceIndex |-> -1]

\* The while loop of _getInstanceFromGlobalInstanceIndex, one iteration per call.
RECURSIVE WalkTabs(_, _, _)
WalkTabs(tabs, index, currentTabIndex) ==
    IF index >= 0 /\ currentTabIndex < Len(tabs)
    THEN LET count == Len(tabs[currentTabIndex + 1].terminalInstances)
         IN  IF index < count
             THEN [found |-> TRUE, tabIndex |-> currentTabIndex,
                   instance |-> tabs[currentTabIndex + 1].terminalInstances[index + 1],
                   localInstanceIndex |-> index]
             ELSE WalkTabs(tabs, index - count, currentTabIndex + 1)
    ELSE NoQuery

\* Mutant of the walk: the loop forgets `index -= count`.
RECURSIVE WalkTabs_NoSubtract(_, _, _)
WalkTabs_NoSubtract(tabs, index, currentTabIndex) ==
    IF index >= 0 /\ currentTabIndex < Len(tabs)
    THEN LET count == Len(tabs[currentTabIndex + 1].terminalInstances)
         IN  IF index < count
             THEN [found |-> TRUE, tabIndex |-> currentTabIndex,
                   instance |-> tabs[currentTabIndex + 1].terminalInstances[index + 1],
                   localInstanceIndex |-> index]
             ELSE WalkTabs_NoSubtract(tabs, index, currentTabIndex + 1)
    ELSE NoQuery

getInstanceFromGlobalInstanceIndex_NoSubtract(s, index) ==
    WalkTabs_NoSubtract(s.tabs, index, 0)

getInstanceFromGlobalInstanceIndex(s, index) ==
    WalkTabs(s.tabs, index, 0)

\* ISerialPortTab.setActiveInstanceByIndex: rejects an index that is not valid.
TabSetActiveInstanceByIndex(tab, index) ==
    IF index < 0 \/ index >= Len(tab.terminalInstances)
    THEN tab
    ELSE [tab EXCEPT !.activeInstanceIndex = index]

setActiveInstanceByIndex(s, terminalIndex) ==
    LET query == getInstanceFromGlobalInstanceIndex(s, terminalIndex)
    IN  IF ~query.found THEN s
        ELSE LET tabs1 == [s.tabs EXCEPT ![query.tabIndex + 1] =
                              TabSetActiveInstanceByIndex(@, query.localInstanceIndex)]
                 didTabChange == s.activeTabIndex # query.tabIndex
                 s1 == [s EXCEPT !.tabs = SetVisible(tabs1, query.tabIndex),
                                 !.activeTabIndex = query.tabIndex]
             IN  IF didTabChange THEN Fire(s1, "onActiveTabChanged", 0) ELSE s1

\* _getIndexFromId: the flattened index of the instance with the id; -1
\* where the code throws its Error.
getIndexFromId(s, terminalId) ==
    LET instances == Flatten(s.tabs)
        matches == {i \in 1 .. Len(instances) : instances[i] = terminalId}
    IN  IF matches = {} THEN -1
        ELSE (CHOOSE i \in matches : \A j \in matches : j <= i) - 1

\* getInstanceFromId: the instance returned is logged as "return".
getInstanceFromId(s, terminalId) ==
    LET terminalIndex == getIndexFromId(s, terminalId)
    IN  IF terminalIndex = -1 THEN Fire(s, "Error", terminalId)
        ELSE Fire(s, "return", Flatten(s.tabs)[terminalIndex + 1])

\* Mutant of setActiveInstance: an instance that is not found selects the
\* first instance.
setActiveInstance_MissingSelectsFirst(s, terminalInstance) ==
    LET terminalIndex == getIndexFromId(s, terminalInstance)
    IN  IF terminalIndex = -1 THEN Fire(setActiveInstanceByIndex(s, 0), "Error", terminalInstance)
        ELSE setActiveInstanceByIndex(s, terminalIndex)

setActiveInstance(s, terminalInstance) ==
    LET terminalIndex == getIndexFromId(s, terminalInstance)
    IN  IF terminalIndex = -1 THEN Fire(s, "Error", terminalInstance)
        ELSE setActiveInstanceByIndex(s, terminalIndex)

\* Mutant of setActiveTabToNext: the index is not wrapped to 0.
setActiveTabToNext_NoWrap(s) ==
    IF Len(s.tabs) <= 1 THEN s
    ELSE setActiveTabByIndex(s, s.activeTabIndex + 1)

setActiveTabToNext(s) ==
    IF Len(s.tabs) <= 1 THEN s
    ELSE LET newIndex == IF s.activeTabIndex + 1 >= Len(s.tabs) THEN 0
                         ELSE s.activeTabIndex + 1
         IN  setActiveTabByIndex(s, newIndex)

setActiveTabToPrevious(s) ==
    IF Len(s.tabs) <= 1 THEN s
    ELSE LET newIndex == IF s.activeTabIndex - 1 < 0 THEN Len(s.tabs) - 1
                         ELSE s.activeTabIndex - 1
         IN  setActiveTabByIndex(s, newIndex)

\* indexOf on a sequence of instance ids: 0-based, -1 when absent.
IndexOf(seq, x) ==
    IF \E i \in 1 .. Len(seq) : seq[i] = x
    THEN (CHOOSE i \in 1 .. Len(seq) : seq[i] = x /\ \A j \in 1 .. i - 1 : seq[j] # x) - 1
    ELSE -1

\* _terminalTabs.indexOf(tab): tabs are compared by identity.
IndexOfTab(tabs, tabId) ==
    IndexOf([i \in 1 .. Len(tabs) |-> tabs[i].id], tabId)

\* Mutant of getTabForInstance: an instance no tab holds is looked up as if
\* it were in the first tab.
getTabForInstance_FallsBackToFirst(s, instance) ==
    IF \E i \in 1 .. Len(s.tabs) : IndexOf(s.tabs[i].terminalInstances, instance) # -1
    THEN (CHOOSE i \in 1 .. Len(s.tabs) :
              /\ IndexOf(s.tabs[i].terminalInstances, instance) # -1
              /\ \A j \in 1 .. i - 1 : IndexOf(s.tabs[j].terminalInstances, instance) = -1) - 1
    ELSE IF Len(s.tabs) > 0 THEN 0 ELSE -1

\* _getTabForInstance, as the 0-based index of the tab found, -1 for null.
getTabForInstance(s, instance) ==
    IF \E i \in 1 .. Len(s.tabs) : IndexOf(s.tabs[i].terminalInstances, instance) # -1
    THEN (CHOOSE i \in 1 .. Len(s.tabs) :
              /\ IndexOf(s.tabs[i].terminalInstances, instance) # -1
              /\ \A j \in 1 .. i - 1 : IndexOf(s.tabs[j].terminalInstances, instance) = -1) - 1
    ELSE -1

\* ISerialPortTab.split: the new instance is appended and becomes the tab's
\* active instance.
TabSplit(tab, newInstance) ==
    [tab EXCEPT !.terminalInstances = Append(@, newInstance),
                !.activeInstanceIndex = Len(tab.terminalInstances)]

\* Mutant of splitInstance: the active tab is split, not the tab that holds
\* the instance.
splitInstance_SplitsActiveTab(s, instanceToSplit, newInstance) ==
    LET found == getTabForInstance(s, instanceToSplit)
        tabIndex == IF found # -1 /\ getActiveTab(s) # NoTab THEN s.activeTabIndex ELSE found
    IN  IF tabIndex = -1 THEN s
        ELSE LET s1 == [s EXCEPT !.tabs[tabIndex + 1] = TabSplit(@, newInstance)]
                 s2 == Fire(s1, "onInstancesChanged", 0)
             IN  [s2 EXCEPT !.tabs = SetVisible(s2.tabs, s2.activeTabIndex)]

splitInstance(s, instanceToSplit, newInstance) ==
    LET tabIndex == getTabForInstance(s, instanceToSplit)
    IN  IF tabIndex = -1 THEN s
        ELSE LET s1 == [s EXCEPT !.tabs[tabIndex + 1] = TabSplit(@, newInstance)]
                 s2 == Fire(s1, "onInstancesChanged", 0)
             IN  [s2 EXCEPT !.tabs = SetVisible(s2.tabs, s2.activeTabIndex)]

hidePanel(s) ==
    LET s1 == Fire(s, "hidePanel", 0)
    IN  IF s1.activePanel = TERMINAL_PANEL_ID
        THEN Fire(s1, "setPanelHidden", 0)
        ELSE s1

\* Mutant of removeTabNewIndex: the removed index is reused without
\* clamping it to the new length.
removeTabNewIndex_NoClamp(index, length) ==
    index

\* _removeTab, "Adjust focus if the tab was active": the index of the
\* replacement tab, from the removed index and the new length.
removeTabNewIndex(index, length) ==
    IF index < length THEN index ELSE length - 1

\* Mutant of removeTabHidePanel: the shutdown latch is not consulted.
removeTabHidePanel_IgnoreShutdown(s) ==
    IF Len(s.tabs) = 0
    THEN Fire(hidePanel(s), "onActiveInstanceChanged", NoInstance)
    ELSE s

\* _removeTab, "Hide the panel if there are no more instances".
removeTabHidePanel(s) ==
    IF Len(s.tabs) = 0 /\ ~s.isShuttingDown
    THEN Fire(hidePanel(s), "onActiveInstanceChanged", NoInstance)
    ELSE s

\* Mutant of removeTabFireEvents: "active tab changed" is fired on every
\* removal.
removeTabFireEvents_Always(s, wasActiveTab) ==
    Fire(Fire(s, "onInstancesChanged", 0), "onActiveTabChanged", 0)

\* _removeTab, "Fire events".
removeTabFireEvents(s, wasActiveTab) ==
    LET s1 == Fire(s, "onInstancesChanged", 0)
    IN  IF wasActiveTab THEN Fire(s1, "onActiveTabChanged", 0) ELSE s1

removeTab(s, tabId) ==
    LET index == IndexOfTab(s.tabs, tabId)
        wasActiveTab == tabId = getActiveTab(s).id
        s1 == IF index # -1 THEN [s EXCEPT !.tabs = Splice(s.tabs, index)] ELSE s
        s2 == IF wasActiveTab /\ Len(s1.tabs) > 0
              THEN LET newIndex == removeTabNewIndex(index, Len(s1.tabs))
                       s1a == setActiveTabByIndex(s1, newIndex)
                   IN  Fire(s1a, "focus", getActiveInstance(s1a))
              ELSE s1
    IN  removeTabFireEvents(removeTabHidePanel(s2), wasActiveTab)

\* The tab's handler of its instance's disposal: the instance leaves the
\* tab's list, the active instance index stays valid, and a tab left with
\* no instance signals its own disposal (onTabDisposed), which the service
\* answers with _removeTab.
TabOnInstanceDisposed(s, instance) ==
    LET tabIndex == getTabForInstance(s, instance)
        tab == s.tabs[tabIndex + 1]
        rest == Splice(tab.terminalInstances, IndexOf(tab.terminalInstances, instance))
        tab1 == [tab EXCEPT !.terminalInstances = rest,
                            !.activeInstanceIndex =
                                IF Len(rest) = 0 THEN 0
                                ELSE IF @ >= Len(rest) THEN Len(rest) - 1 ELSE @]
        s1 == [s EXCEPT !.tabs[tabIndex + 1] = tab1]
    IN  IF tabIndex = -1 THEN s
        ELSE IF Len(rest) = 0
             THEN removeTab(Fire(s1, "onTabDisposed", tab.id), tab.id)
             ELSE s1

\* instance.dispose(): the tab's listener runs, then the service re-emits
\* the instance's onDisposed as onInstanceDisposed.
disposeInstance(s, instance) ==
    Fire(TabOnInstanceDisposed(s, instance), "onInstanceDisposed", instance)

\* createTerminal: a new tab holding one new instance is appended to the
\* tab list; the tab is visible exactly if it is the selected one; the
\* service fires onInstancesChanged.
createTerminal(s, newInstance) ==
    LET tab == [id |-> newInstance, terminalInstances |-> <<newInstance>>,
                activeInstanceIndex |-> 0,
                visible |-> (Len(s.tabs) = s.activeTabIndex)]
    IN  Fire([s EXCEPT !.tabs = Append(@, tab)], "onInstancesChanged", 0)

\* Mutant of onWillShutdown: the check for zero instances is missing.
onWillShutdown_NoEmptyCheck(s) ==
    IF s.confirmOnExit
    THEN Fire([s EXCEPT !.prompt = "pending", !.vetoResult = "pending"],
              "showTerminalCloseConfirmation", 0)
    ELSE [s EXCEPT !.isShuttingDown = TRUE, !.vetoResult = "proceed"]

\* Mutant of onWillShutdown: the latch is set when the confirmation opens.
onWillShutdown_LatchAtPrompt(s) ==
    IF Len(Flatten(s.tabs)) = 0
    THEN [s EXCEPT !.vetoResult = "proceed"]
    ELSE IF s.confirmOnExit
         THEN Fire([s EXCEPT !.prompt = "pending", !.vetoResult = "pending",
                             !.isShuttingDown = TRUE],
                   "showTerminalCloseConfirmation", 0)
         ELSE [s EXCEPT !.isShuttingDown = TRUE, !.vetoResult = "proceed"]

\* Mutant of onWillShutdown: without confirmation the latch is not set.
onWillShutdown_NoLatch(s) ==
    IF Len(Flatten(s.tabs)) = 0
    THEN [s EXCEPT !.vetoResult = "proceed"]
    ELSE IF s.confirmOnExit
         THEN Fire([s EXCEPT !.prompt = "pending", !.vetoResult = "pending"],
                   "showTerminalCloseConfirmation", 0)
         ELSE [s EXCEPT !.vetoResult = "proceed"]

onWillShutdown(s) ==
    IF Len(Flatten(s.tabs)) = 0
    THEN [s EXCEPT !.vetoResult = "proceed"]
    ELSE IF s.confirmOnExit
         THEN Fire([s EXCEPT !.prompt = "pending", !.vetoResult = "pending"],
                   "showTerminalCloseConfirmation", 0)
         ELSE [s EXCEPT !.isShuttingDown = TRUE, !.vetoResult = "proceed"]

\* Mutant of onCloseConfirmation: the latch follows the answer, a veto clears it.
onCloseConfirmation_VetoClearsLatch(s, veto) ==
    [s EXCEPT !.isShuttingDown = ~veto, !.prompt = "idle",
              !.vetoResult = IF veto THEN "veto" ELSE "proceed"]

\* Mutant of onCloseConfirmation: the latch is set whatever the answer.
onCloseConfirmation_AlwaysLatch(s, veto) ==
    [s EXCEPT !.isShuttingDown = TRUE, !.prompt = "idle",
              !.vetoResult = IF veto THEN "veto" ELSE "proceed"]

\* The continuation of _showTerminalCloseConfirmation().then(veto => ...).
onCloseConfirmation(s, veto) ==
    LET s1 == IF ~veto THEN [s EXCEPT !.isShuttingDown = TRUE] ELSE s
    IN  [s1 EXCEPT !.prompt = "idle",
                   !.vetoResult = IF veto THEN "veto" ELSE "proceed"]

\* --- JSON, over token sequences -------------------------------------------
\* A JSON text is a sequence of tokens: the punctuation below, "null", and
\* atoms (strings and numbers); "?" stands for text no JSON value starts with.
Punctuation == {"[", "]", "{", "}", ",", ":"}
InvalidToken == "?"

\* Decoded JSON values, in one record shape.
JAtom(token) == [kind |-> "atom", atom |-> token, items |-> <<>>, keys |-> <<>>]
JArray(items) == [kind |-> "array", atom |-> "", items |-> items, keys |-> <<>>]
JObject(keys, values) == [kind |-> "object", atom |-> "", items |-> values, keys |-> keys]
JUndefined == [kind |-> "undefined", atom |-> "", items |-> <<>>, keys |-> <<>>]

\* Token sequences joined with ",".
RECURSIVE JoinTokens(_)
JoinTokens(parts) ==
    IF parts = <<>> THEN <<>>
    ELSE IF Len(parts) = 1 THEN parts[1]
    ELSE parts[1] \o <<",">> \o JoinTokens(Tail(parts))

\* JSON.stringify of a launch config.
StringifyConfig(config) ==
    IF config = DefaultLaunchConfig THEN <<"{", "}">>
    ELSE <<"{", "name", ":", config, "}">>

\* JSON.stringify of `{ instances: tab.terminalInstances.map(i => i.shellLaunchConfig) }`.
StringifyTab(tab, configs) ==
    <<"{", "instances", ":", "[">>
    \o JoinTokens([j \in 1 .. Len(tab.terminalInstances) |->
                      StringifyConfig(configs[tab.terminalInstances[j]])])
    \o <<"]", "}">>

\* JSON.stringify(configs) in _onShutdown.
StringifyTabs(tabs, configs) ==
    <<"[">> \o JoinTokens([i \in 1 .. Len(tabs) |-> StringifyTab(tabs[i], configs)]) \o <<"]">>

ParseFail == [ok |-> FALSE, value |-> JUndefined, rest |-> <<>>]

\* JSON.parse by recursive descent: a value, the elements of an array after
\* "[", the members of an object after "{".
RECURSIVE ParseValue(_)
RECURSIVE ParseElements(_, _)
RECURSIVE ParseMembers(_, _, _)
ParseValue(toks) ==
    IF toks = <<>> THEN ParseFail
    ELSE IF Head(toks) = "["
         THEN IF Len(toks) >= 2 /\ toks[2] = "]"
              THEN [ok |-> TRUE, value |-> JArray(<<>>), rest |-> Tail(Tail(toks))]
              ELSE ParseElements(Tail(toks), <<>>)
    ELSE IF Head(toks) = "{"
         THEN IF Len(toks) >= 2 /\ toks[2] = "}"
              THEN [ok |-> TRUE, value |-> JObject(<<>>, <<>>), rest |-> Tail(Tail(toks))]
              ELSE ParseMembers(Tail(toks), <<>>, <<>>)
    ELSE IF Head(toks) \in Punctuation \/ Head(toks) = InvalidToken THEN ParseFail
    ELSE [ok |-> TRUE, value |-> JAtom(Head(toks)), rest |-> Tail(toks)]

ParseElements(toks, acc) ==
    LET r == ParseValue(toks)
    IN  IF ~r.ok \/ r.rest = <<>> THEN ParseFail
        ELSE IF Head(r.rest) = "]"
             THEN [ok |-> TRUE, value |-> JArray(Append(acc, r.value)), rest |-> Tail(r.rest)]
        ELSE IF Head(r.rest) = ","
             THEN ParseElements(Tail(r.rest), Append(acc, r.value))
        ELSE ParseFail

ParseMembers(toks, keys, values) ==
    IF Len(toks) < 3 \/ toks[1] \in Punctuation \/ toks[1] = InvalidToken \/ toks[2] # ":"
    THEN ParseFail
    ELSE LET r == ParseValue(SubSeq(toks, 3, Len(toks)))
         IN  IF ~r.ok \/ r.rest = <<>> THEN ParseFail
             ELSE IF Head(r.rest) = "}"
                  THEN [ok |-> TRUE,
                        value |-> JObject(Append(keys, toks[1]), Append(values, r.value)),
                        rest |-> Tail(r.rest)]
             ELSE IF Head(r.rest) = ","
                  THEN ParseMembers(Tail(r.rest), Append(keys, toks[1]), Append(values, r.value))
             ELSE ParseFail

\* JSON.parse: ok is FALSE where JSON.parse throws a SyntaxError.
JSONParse(toks) ==
    LET r == ParseValue(toks)
    IN  IF r.ok /\ r.rest = <<>> THEN r ELSE ParseFail

\* value[key] of a decoded object; undefined when the key is missing.
Member(value, key) ==
    IF value.kind = "object" /\ \E i \in 1 .. Len(value.keys) : value.keys[i] = key
    THEN value.items[CHOOSE i \in 1 .. Len(value.keys) : value.keys[i] = key]
    ELSE JUndefined

\* The launch config an instance gets from a decoded config (undefined: the default).
ConfigFromJson(value) ==
    IF Member(value, "name").kind = "atom" THEN Member(value, "name").atom
    ELSE DefaultLaunchConfig

\* --- restore and shutdown -------------------------------------------------
\* The state _restoreTabs works on: the service, the factory's next id and
\* the launch configs of the instances, with `thrown` set once it threw.
RestoreState(s, id, configs) ==
    [s |-> s, nextId |-> id, configs |-> configs, thrown |-> FALSE]

\* Reading property `key` of `value` throws a TypeError on null and undefined.
ReadThrows(value) ==
    value.kind = "undefined" \/ (value.kind = "atom" /\ value.atom = "null")

\* The elements `instances[i]` and `instances.length` give: those of an
\* array; none for any other value that has properties.
Elements(value) ==
    IF value.kind = "array" THEN value.items ELSE <<>>

\* for (let i = 1; i < tabConfig.instances.length; i++) this.splitInstance(instance, ...)
RECURSIVE restoreSplits(_, _, _, _)
restoreSplits(rs, instance, elements, i) ==
    IF i >= Len(elements) THEN rs
    ELSE restoreSplits(
             [rs EXCEPT !.s = splitInstance(rs.s, instance, rs.nextId),
                        !.configs = (rs.nextId :> ConfigFromJson(elements[i + 1])) @@ @,
                        !.nextId = @ + 1],
             instance, elements, i + 1)

\* Mutant of restoreTab: the split loop starts at 0.
restoreTab_SplitFromZero(rs, tabConfig, created) ==
    IF ReadThrows(tabConfig) \/ ReadThrows(Member(tabConfig, "instances"))
    THEN [rs EXCEPT !.s = Fire(rs.s, "TypeError", 0), !.thrown = TRUE]
    ELSE LET elements == Elements(Member(tabConfig, "instances"))
             first == IF Len(elements) > 0 THEN elements[1] ELSE JUndefined
             instance == rs.nextId
             rs1 == [rs EXCEPT !.s = createTerminal(rs.s, instance),
                               !.configs = (instance :> ConfigFromJson(first)) @@ @,
                               !.nextId = @ + 1]
         IN  IF ~created THEN rs
             ELSE restoreSplits(rs1, instance, elements, 0)

\* The body of tabConfigs.forEach in _restoreTabs; `created` is FALSE when
\* createTerminal returns no instance.
restoreTab(rs, tabConfig, created) ==
    IF ReadThrows(tabConfig) \/ ReadThrows(Member(tabConfig, "instances"))
    THEN [rs EXCEPT !.s = Fire(rs.s, "TypeError", 0), !.thrown = TRUE]
    ELSE LET elements == Elements(Member(tabConfig, "instances"))
             first == IF Len(elements) > 0 THEN elements[1] ELSE JUndefined
             instance == rs.nextId
             rs1 == [rs EXCEPT !.s = createTerminal(rs.s, instance),
                               !.configs = (instance :> ConfigFromJson(first)) @@ @,
                               !.nextId = @ + 1]
         IN  IF ~created THEN rs
             ELSE restoreSplits(rs1, instance, elements, 1)

\* tabConfigs.forEach(...): stops at the first tab whose body throws.
RECURSIVE restoreEach(_, _, _, _)
restoreEach(rs, tabConfigs, n, failAt) ==
    IF n > Len(tabConfigs) \/ rs.thrown THEN rs
    ELSE restoreEach(restoreTab(rs, tabConfigs[n], n # failAt), tabConfigs, n + 1, failAt)

\* _restoreTabs; failAt is the tab whose createTerminal returns no instance
\* (0: none).
restoreTabs(rs, restore, stored, failAt) ==
    IF ~restore THEN rs
    ELSE IF stored = <<>> THEN rs
    ELSE LET parsed == JSONParse(stored)
         IN  IF ~parsed.ok
             THEN [rs EXCEPT !.s = Fire(rs.s, "SyntaxError", 0), !.thrown = TRUE]
             ELSE IF parsed.value.kind # "array" THEN rs
             ELSE restoreEach(rs, parsed.value.items, 1, failAt)

\* What _onShutdown stores under TERMINAL_STATE_STORAGE_KEY.
onShutdownStore(s, restore, stored, configs) ==
    IF restore THEN StringifyTabs(s.tabs, configs) ELSE stored

\* this.terminalInstances.forEach(instance => instance.dispose()) over the
\* list as it was when forEach started; dispose of element throwAt throws
\* (0: none does), before or after the instance's listeners ran, and the
\* exception ends the loop.
RECURSIVE disposeAll(_, _, _, _, _)
disposeAll(s, instances, n, throwAt, listenersRan) ==
    IF n > Len(instances) THEN s
    ELSE LET s1 == Fire(s, "dispose", instances[n])
         IN  IF n = throwAt
             THEN Fire(IF listenersRan THEN disposeInstance(s1, instances[n]) ELSE s1,
                       "Error", instances[n])
             ELSE disposeAll(disposeInstance(s1, instances[n]), instances, n + 1,
                             throwAt, listenersRan)

\* _onShutdown, "Dispose of all instances".
onShutdown(s, throwAt, listenersRan) ==
    disposeAll(s, Flatten(s.tabs), 1, throwAt, listenersRan)

\* The launch configs of the tabs' instances, tab by tab, in order.
Layout(tabs, configs) ==
    [i \in 1 .. Len(tabs) |->
        [j \in 1 .. Len(tabs[i].terminalInstances) |-> configs[tabs[i].terminalInstances[j]]]]

\* --- showPanel -------------------------------------------------------------
\* The state showPanel and its continuations work on: the service, the
\* openPanel promises in flight and the timers set.
PanelState(s, requests, timerCount) ==
    [s |-> s, openRequests |-> requests, timers |-> timerCount]

\* if (focus) setTimeout(() => {...}, 0); complete(void 0);
scheduleFocus(ps, focus) ==
    LET ps1 == IF focus THEN [ps EXCEPT !.timers = @ + 1] ELSE ps
    IN  [ps1 EXCEPT !.s = Fire(@, "complete", 0)]

\* Mutant of showPanel: with the panel visible the focus call is made at
\* once, not from a timer.
showPanel_FocusSynchronously(ps, focus) ==
    IF ps.s.activePanel # TERMINAL_PANEL_ID
    THEN [ps EXCEPT !.s = Fire(@, "openPanel", IF focus THEN 1 ELSE 0),
                    !.openRequests = Append(@, focus)]
    ELSE IF focus /\ getActiveInstance(ps.s) # NoInstance
         THEN [ps EXCEPT !.s = Fire(Fire(@, "focus", getActiveInstance(ps.s)), "complete", 0)]
         ELSE [ps EXCEPT !.s = Fire(@, "complete", 0)]

\* showPanel up to its return: the open request, or the timer.
showPanel(ps, focus) ==
    IF ps.s.activePanel # TERMINAL_PANEL_ID
    THEN [ps EXCEPT !.s = Fire(@, "openPanel", IF focus THEN 1 ELSE 0),
                    !.openRequests = Append(@, focus)]
    ELSE scheduleFocus(ps, focus)

\* openPanel(...).then(() => {...}) for the n-th request in flight.
onPanelOpened(ps, n) ==
    scheduleFocus([ps EXCEPT !.openRequests = Splice(@, n - 1)], ps.openRequests[n])

\* The timer's callback: focus the instance that is active now, if any.
onFocusTimer(ps) ==
    LET instance == getActiveInstance(ps.s)
        ps1 == [ps EXCEPT !.timers = @ - 1]
    IN  IF instance # NoInstance THEN [ps1 EXCEPT !.s = Fire(@, "focus", instance)]
        ELSE ps1

\* The service as its constructor leaves it.
Constructed ==
    /\ terminalTabs = <<>>
    /\ activeTabIndex = 0
    /\ isShuttingDown = FALSE
    /\ nextId = 1
    /\ prompt = "idle"
    /\ vetoResult = "none"
    /\ fired = <<>>
    /\ last = [op |-> "init", arg |-> 0]
    /\ phase = "starting"
    /\ shellLaunchConfig = <<>>
    /\ openRequests = <<>>
    /\ timers = 0

Init ==
    /\ Constructed
    /\ confirmOnExit \in BOOLEAN
    /\ activePanel \in PanelIds
    /\ experimentalRestore = FALSE
    /\ storage = <<>>
    /\ savedLayout = [written |-> FALSE, layout |-> <<>>]

\* Write a handler's result back to the service's fields.
Commit(s, op, arg) ==
    /\ terminalTabs' = s.tabs
    /\ activeTabIndex' = s.activeTabIndex
    /\ isShuttingDown' = s.isShuttingDown
    /\ prompt' = s.prompt
    /\ vetoResult' = s.vetoResult
    /\ fired' = s.fired
    /\ last' = [op |-> op, arg |-> arg]

\* Ids of the instances some tab tracks.
Tracked == {Flatten(terminalTabs)[i] : i \in 1 .. Len(Flatten(terminalTabs))}

\* What an operation on the running service leaves alone.
Running ==
    /\ phase = "running"
    /\ UNCHANGED <<confirmOnExit, activePanel, phase, experimentalRestore, storage,
                   savedLayout, openRequests, timers>>

\* createTerminal with a launch config out of `configs`.
CreateTerminalWith(configs) ==
    \E config \in configs :
        /\ Running
        /\ nextId <= MaxInstances
        /\ Commit(createTerminal(Cur, nextId), "createTerminal", nextId)
        /\ nextId' = nextId + 1
        /\ shellLaunchConfig' = (nextId :> config) @@ shellLaunchConfig

\* splitInstance with a launch config out of `configs`.
SplitInstanceWith(configs) ==
    \E instance \in 1 .. nextId - 1, config \in configs :
        /\ Running
        /\ instance \in Tracked => nextId <= MaxInstances
        /\ Commit(splitInstance(Cur, instance, nextId), "splitInstance", instance)
        /\ nextId' = IF instance \in Tracked THEN nextId + 1 ELSE nextId
        /\ shellLaunchConfig' = IF instance \in Tracked
                                THEN (nextId :> config) @@ shellLaunchConfig
                                ELSE shellLaunchConfig

CreateTerminal ==
    CreateTerminalWith({DefaultLaunchConfig})

SplitInstance ==
    SplitInstanceWith({DefaultLaunchConfig})

DisposeInstance ==
    \E instance \in Tracked :
        /\ Running
        /\ Commit(disposeInstance(Cur, instance), "disposeInstance", instance)
        /\ UNCHANGED <<nextId, shellLaunchConfig>>

SetActiveTabByIndex ==
    \E i \in IndexInputs :
        /\ Running
        /\ Commit(setActiveTabByIndex(Cur, i), "setActiveTabByIndex", i)
        /\ UNCHANGED <<nextId, shellLaunchConfig>>

SetActiveInstanceByIndex ==
    \E k \in IndexInputs :
        /\ Running
        /\ Commit(setActiveInstanceByIndex(Cur, k), "setActiveInstanceByIndex", k)
        /\ UNCHANGED <<nextId, shellLaunchConfig>>

\* Callers hold instances that are tracked, disposed or (nextId) unknown.
SetActiveInstance ==
    \E instance \in 1 .. nextId :
        /\ Running
        /\ Commit(setActiveInstance(Cur, instance), "setActiveInstance", instance)
        /\ UNCHANGED <<nextId, shellLaunchConfig>>

GetInstanceFromId ==
    \E id \in 1 .. nextId :
        /\ Running
        /\ Commit(getInstanceFromId(Cur, id), "getInstanceFromId", id)
        /\ UNCHANGED <<nextId, shellLaunchConfig>>

SetActiveTabToNext ==
    /\ Running
    /\ Commit(setActiveTabToNext(Cur), "setActiveTabToNext", 0)
    /\ UNCHANGED <<nextId, shellLaunchConfig>>

SetActiveTabToPrevious ==
    /\ Running
    /\ Commit(setActiveTabToPrevious(Cur), "setActiveTabToPrevious", 0)
    /\ UNCHANGED <<nextId, shellLaunchConfig>>

\* lifecycleService.onWillShutdown: the host asks once and waits for the answer.
OnWillShutdown ==
    /\ Running
    /\ prompt = "idle"
    /\ Commit(onWillShutdown(Cur), "onWillShutdown", 0)
    /\ UNCHANGED <<nextId, shellLaunchConfig>>

\* The user answers the close confirmation: veto = TRUE cancels the exit.
CloseConfirmation ==
    \E veto \in BOOLEAN :
        /\ Running
        /\ prompt = "pending"
        /\ Commit(onCloseConfirmation(Cur, veto), "closeConfirmation", IF veto THEN 1 ELSE 0)
        /\ UNCHANGED <<nextId, shellLaunchConfig>>

\* Another part of the workbench opens or closes a panel.
PanelChanged ==
    \E p \in PanelIds :
        /\ phase = "running"
        /\ p # activePanel
        /\ activePanel' = p
        /\ fired' = <<>>
        /\ last' = [op |-> "panelChanged", arg |-> 0]
        /\ UNCHANGED <<terminalTabs, activeTabIndex, isShuttingDown, nextId,
                       confirmOnExit, prompt, vetoResult, phase,
                       experimentalRestore, storage, shellLaunchConfig, savedLayout,
                       openRequests, timers>>

\* lifecycleService.when(LifecyclePhase.Restoring): _restoreTabs runs once,
\* before the workbench takes any request.
RestoreTabs ==
    \E failAt \in 0 .. 1 :
        LET rs == restoreTabs(RestoreState(Cur, nextId, shellLaunchConfig),
                              experimentalRestore, storage, failAt)
        IN  /\ phase = "starting"
            /\ Commit(rs.s, "restoreTabs", failAt)
            /\ nextId' = rs.nextId
            /\ shellLaunchConfig' = rs.configs
            /\ phase' = "running"
            /\ UNCHANGED <<confirmOnExit, activePanel, experimentalRestore, storage,
                           savedLayout, openRequests, timers>>

\* lifecycleService.onShutdown: the host calls it after an onWillShutdown
\* that returned no veto; the process ends with it.
OnShutdown ==
    \E throwAt \in 0 .. Len(Flatten(terminalTabs)), listenersRan \in BOOLEAN :
        /\ phase = "running"
        /\ prompt = "idle"
        /\ vetoResult = "proceed"
        /\ throwAt = 0 => ~listenersRan
        /\ storage' = onShutdownStore(Cur, experimentalRestore, storage, shellLaunchConfig)
        /\ savedLayout' = IF experimentalRestore
                          THEN [written |-> TRUE,
                                layout |-> Layout(terminalTabs, shellLaunchConfig)]
                          ELSE savedLayout
        /\ Commit(onShutdown(Cur, throwAt, listenersRan), "onShutdown", throwAt)
        /\ phase' = "shutdown"
        /\ UNCHANGED <<nextId, confirmOnExit, activePanel, experimentalRestore,
                       shellLaunchConfig, openRequests, timers>>

Next ==
    \/ RestoreTabs
    \/ CreateTerminal
    \/ SplitInstance
    \/ DisposeInstance
    \/ SetActiveTabByIndex
    \/ SetActiveInstanceByIndex
    \/ SetActiveTabToNext
    \/ SetActiveTabToPrevious
    \/ OnWillShutdown
    \/ CloseConfirmation
    \/ PanelChanged
    \/ OnShutdown

Spec == Init /\ [][Next]_vars

\* --- the service across restarts, with the restore flag and a stored value --
\* Values found under TERMINAL_STATE_STORAGE_KEY at the first start: none,
\* text that is no JSON, a JSON object, an array holding null, and a tab
\* without instances.
StoredSamples ==
    { <<>>,
      <<InvalidToken>>,
      <<"{", "}">>,
      <<"[", "null", "]">>,
      <<"[", "{", "instances", ":", "[", "]", "}", "]">> }

InitRestore ==
    /\ Constructed
    /\ confirmOnExit = FALSE
    /\ activePanel = TERMINAL_PANEL_ID
    /\ experimentalRestore \in BOOLEAN
    /\ storage \in StoredSamples
    /\ savedLayout = [written |-> FALSE, layout |-> <<>>]

CreateTerminalConfigured ==
    CreateTerminalWith(LaunchConfigs)

SplitInstanceConfigured ==
    SplitInstanceWith(LaunchConfigs)

\* The workbench starts again: a new service is constructed; the storage
\* and the configuration outlive the process.
Restart ==
    /\ phase = "shutdown"
    /\ terminalTabs' = <<>>
    /\ activeTabIndex' = 0
    /\ isShuttingDown' = FALSE
    /\ nextId' = 1
    /\ prompt' = "idle"
    /\ vetoResult' = "none"
    /\ fired' = <<>>
    /\ last' = [op |-> "init", arg |-> 0]
    /\ phase' = "starting"
    /\ shellLaunchConfig' = <<>>
    /\ openRequests' = <<>>
    /\ timers' = 0
    /\ UNCHANGED <<confirmOnExit, activePanel, experimentalRestore, storage, savedLayout>>

NextRestore ==
    \/ RestoreTabs
    \/ CreateTerminalConfigured
    \/ SplitInstanceConfigured
    \/ OnWillShutdown
    \/ OnShutdown
    \/ Restart

SpecRestore == InitRestore /\ [][NextRestore]_vars

\* --- the service with showPanel and the scheduler steps it leaves behind ---
InitPanel ==
    /\ Constructed
    /\ confirmOnExit = FALSE
    /\ activePanel \in PanelIds
    /\ experimentalRestore = FALSE
    /\ storage = <<>>
    /\ savedLayout = [written |-> FALSE, layout |-> <<>>]

\* What a showPanel step leaves alone.
PanelFrame ==
    /\ phase = "running"
    /\ UNCHANGED <<nextId, confirmOnExit, phase, experimentalRestore, storage,
                   shellLaunchConfig, savedLayout>>

PanelCommit(ps, op, arg) ==
    /\ Commit(ps.s, op, arg)
    /\ openRequests' = ps.openRequests
    /\ timers' = ps.timers

ShowPanel ==
    \E focus \in BOOLEAN :
        /\ PanelFrame
        /\ Len(openRequests) + timers < MaxPending
        /\ PanelCommit(showPanel(PanelState(Cur, openRequests, timers), focus),
                       "showPanel", IF focus THEN 1 ELSE 0)
        /\ UNCHANGED activePanel

\* The panel service has opened the terminal panel: the promise of one of
\* the open requests resolves.
PanelOpened ==
    \E n \in 1 .. Len(openRequests) :
        /\ PanelFrame
        /\ PanelCommit(onPanelOpened(PanelState(Cur, openRequests, timers), n),
                       "panelOpened", IF openRequests[n] THEN 1 ELSE 0)
        /\ activePanel' = TERMINAL_PANEL_ID

\* The scheduler runs one of the timers.
FocusTimer ==
    /\ PanelFrame
    /\ timers > 0
    /\ PanelCommit(onFocusTimer(PanelState(Cur, openRequests, timers)), "focusTimer", 0)
    /\ UNCHANGED activePanel

NextPanel ==
    \/ RestoreTabs
    \/ CreateTerminal
    \/ DisposeInstance
    \/ SetActiveTabByIndex
    \/ PanelChanged
    \/ ShowPanel
    \/ PanelOpened
    \/ FocusTimer

SpecPanel == InitPanel /\ [][NextPanel]_vars

\* --- the service with callers that look instances up by reference or id ---
InitLookup ==
    /\ Constructed
    /\ confirmOnExit = FALSE
    /\ activePanel \in {TERMINAL_PANEL_ID, "other"}
    /\ experimentalRestore = FALSE
    /\ storage = <<>>
    /\ savedLayout = [written |-> FALSE, layout |-> <<>>]

NextLookup ==
    \/ RestoreTabs
    \/ CreateTerminal
    \/ SplitInstance
    \/ DisposeInstance
    \/ SetActiveTabByIndex
    \/ SetActiveInstanceByIndex
    \/ SetActiveInstance
    \/ GetInstanceFromId

SpecLookup == InitLookup /\ [][NextLookup]_vars

-----------------------------------------------------------------------------
\* The state after a step, as the handlers see it.
Post ==
    [tabs |-> terminalTabs', activeTabIndex |-> activeTabIndex',
     isShuttingDown |-> isShuttingDown', activePanel |-> activePanel',
     confirmOnExit |-> confirmOnExit', prompt |-> prompt',
     vetoResult |-> vetoResult', fired |-> fired']

\* The last operation disposed an instance and its tab went with it.
TabRemoved ==
    last.op = "disposeInstance" /\ Count(fired, "onTabDisposed") = 1

\* The step disposes the last instance of a tab: the 0-based index of the
\* tab it removes, -1 if the step removes no tab.
RemovedIndex ==
    IF last'.op = "disposeInstance" /\ Count(fired', "onTabDisposed") = 1
    THEN getTabForInstance(Cur, last'.arg)
    ELSE -1

\* The indices of the visible tabs.
VisibleTabs ==
    {i \in 1 .. Len(terminalTabs) : terminalTabs[i].visible}

\* C1 (I1): after every operation either there is no tab or activeTabIndex
\* is an index of the tab list.
C1_ActiveTabIndexInRange ==
    terminalTabs = <<>> \/ (0 <= activeTabIndex /\ activeTabIndex < Len(terminalTabs))

\* C2 (I5): a tab removal that leaves the tab list non-empty never leaves
\* activeTabIndex at or past the end of the new list.
C2_RemovalKeepsIndexInList ==
    (TabRemoved /\ terminalTabs # <<>>) => activeTabIndex < Len(terminalTabs)

\* C3 (I4): whenever there is a tab, exactly one tab is visible and it is
\* the tab at activeTabIndex.
C3_ExactlyActiveTabVisible ==
    terminalTabs # <<>> => VisibleTabs = {activeTabIndex + 1}

\* s1 + ... + sn: the number of instances in the first n tabs.
RECURSIVE SizeOfFirst(_, _)
SizeOfFirst(tabs, n) ==
    IF n = 0 THEN 0
    ELSE SizeOfFirst(tabs, n - 1) + Len(tabs[n].terminalInstances)

\* C4 (I3): setActiveInstanceByIndex(k) with k = s1+...+si + j, 0 <= j < s(i+1),
\* makes tab i+1 the active tab and its j-th instance that tab's active
\* instance, which is element k of the concatenation of the tabs' instance
\* lists; with k outside the concatenation it changes nothing.
C4_FlattenedIndexResolution ==
    [][last'.op = "setActiveInstanceByIndex" =>
        LET k == last'.arg
            flat == Flatten(terminalTabs)
        IN  IF 0 <= k /\ k < Len(flat)
            THEN \E i \in 0 .. Len(terminalTabs) - 1 :
                    LET j == k - SizeOfFirst(terminalTabs, i)
                    IN  /\ 0 <= j /\ j < Len(terminalTabs[i + 1].terminalInstances)
                        /\ activeTabIndex' = i
                        /\ terminalTabs'[i + 1].activeInstanceIndex = j
                        /\ getActiveInstance(Post) = flat[k + 1]
                        /\ Flatten(terminalTabs') = flat
            ELSE /\ UNCHANGED <<terminalTabs, activeTabIndex>>
                 /\ fired' = <<>>
    ]_vars

\* C4 witness: a global index that resolves past the first tab, to an
\* instance that is not the first of its tab, has been selected.
C4_Witness ==
    /\ last.op = "setActiveInstanceByIndex"
    /\ last.arg = 2
    /\ activeTabIndex = 1
    /\ terminalTabs[2].activeInstanceIndex = 1
    /\ Count(fired, "onActiveTabChanged") = 1

\* C5: removing the active tab at index r from a list that stays non-empty
\* makes min(r, new length - 1) the active index: the tab that followed the
\* removed one, or the new last tab if the removed one was last; focus is
\* requested on that tab's active instance.
C5_ReplacementAfterActiveRemoval ==
    [][(RemovedIndex # -1 /\ RemovedIndex = activeTabIndex /\ Len(terminalTabs) > 1) =>
        LET r == RemovedIndex
            newLen == Len(terminalTabs')
            expected == IF r < newLen - 1 THEN r ELSE newLen - 1
        IN  /\ newLen = Len(terminalTabs) - 1
            /\ activeTabIndex' = expected
            /\ getActiveTab(Post).id =
                   (IF r < Len(terminalTabs) - 1 THEN terminalTabs[r + 2].id
                    ELSE terminalTabs[r].id)
            /\ getActiveTab(Post).visible
            /\ getActiveInstance(Post) # NoInstance
            /\ Count(fired', "focus") = 1
            /\ \E n \in 1 .. Len(fired') :
                   fired'[n] = [type |-> "focus", arg |-> getActiveInstance(Post)]
    ]_vars

\* C5 witness: the active tab was removed while it was the last of at least
\* three tabs, and the new last tab took over.
C5_Witness ==
    /\ TabRemoved
    /\ Len(terminalTabs) = 2
    /\ activeTabIndex = 1
    /\ Count(fired, "focus") = 1
    /\ Count(fired, "onActiveTabChanged") = 2

\* C6: no single operation fires "active tab changed" more than once, and
\* an operation that sets the active index to the value it already has
\* does not fire it.
C6_AtMostOneActiveTabChanged ==
    [][/\ last'.op # "onShutdown" => Count(fired', "onActiveTabChanged") <= 1
       /\ (/\ last'.op \in {"setActiveTabByIndex", "setActiveInstanceByIndex",
                            "setActiveTabToNext", "setActiveTabToPrevious"}
           /\ activeTabIndex' = activeTabIndex)
              => Count(fired', "onActiveTabChanged") = 0
    ]_vars

\* C7: setActiveTabByIndex(i) with i the current active index fires no
\* "active tab changed"; with another valid index it sets activeTabIndex to
\* i and fires exactly one.
C7_SetActiveTabByIndexEvents ==
    [][last'.op = "setActiveTabByIndex" =>
        LET i == last'.arg
        IN  /\ i = activeTabIndex =>
                   /\ Count(fired', "onActiveTabChanged") = 0
                   /\ activeTabIndex' = activeTabIndex
            /\ (0 <= i /\ i < Len(terminalTabs) /\ i # activeTabIndex) =>
                   /\ activeTabIndex' = i
                   /\ Count(fired', "onActiveTabChanged") = 1
    ]_vars

\* C7 witness: setActiveTabByIndex moved the active index to another valid
\* index and fired once.
C7_Witness ==
    /\ last.op = "setActiveTabByIndex"
    /\ last.arg = 1
    /\ activeTabIndex = 1
    /\ Len(terminalTabs) >= 2
    /\ Count(fired, "onActiveTabChanged") = 1

\* C8: every tab removal fires "instances changed" exactly once, and fires
\* "active tab changed" only if the removed tab was the active tab.
C8_RemovalEvents ==
    [][RemovedIndex # -1 =>
        /\ Count(fired', "onInstancesChanged") = 1
        /\ Count(fired', "onActiveTabChanged") > 0
               => terminalTabs[RemovedIndex + 1].id = getActiveTab(Cur).id
    ]_vars

\* C8 witness: a tab that was not the active one was removed, with one
\* "instances changed" and no "active tab changed".
C8_Witness ==
    /\ TabRemoved
    /\ terminalTabs # <<>>
    /\ Count(fired, "onInstancesChanged") = 1
    /\ Count(fired, "onActiveTabChanged") = 0

\* C9: when a tab removal empties the tab list and the service is not
\* shutting down, hidePanel is called (and hides the panel if it is the
\* terminal panel), "active instance changed" fires with no instance, and
\* getActiveTab returns none; when the service is shutting down neither the
\* hide nor the event happens.
C9_LastTabClosed ==
    (TabRemoved /\ terminalTabs = <<>>) =>
        /\ getActiveTab(Cur) = NoTab
        /\ IF ~isShuttingDown
           THEN /\ Count(fired, "hidePanel") = 1
                /\ Count(fired, "setPanelHidden") =
                       (IF activePanel = TERMINAL_PANEL_ID THEN 1 ELSE 0)
                /\ Count(fired, "onActiveInstanceChanged") = 1
                /\ \E n \in 1 .. Len(fired) :
                       fired[n] = [type |-> "onActiveInstanceChanged", arg |-> NoInstance]
           ELSE /\ Count(fired, "hidePanel") = 0
                /\ Count(fired, "setPanelHidden") = 0
                /\ Count(fired, "onActiveInstanceChanged") = 0

\* C9 witness: the last tab was closed while the service was shutting down.
C9_Witness ==
    /\ TabRemoved
    /\ terminalTabs = <<>>
    /\ isShuttingDown
    /\ activePanel = TERMINAL_PANEL_ID
    /\ Count(fired, "hidePanel") = 0

\* C10: with instances and confirm-on-exit, onWillShutdown asks the prompt
\* and decides nothing itself; the veto returned is the prompt's outcome:
\* on cancel a veto is returned and isShuttingDown keeps its value, on
\* proceed no veto is returned and isShuttingDown is true.
C10_ConfirmedShutdown ==
    [][/\ (last'.op = "onWillShutdown" /\ Len(Flatten(terminalTabs)) > 0 /\ confirmOnExit) =>
              /\ prompt' = "pending"
              /\ Count(fired', "showTerminalCloseConfirmation") = 1
              /\ isShuttingDown' = isShuttingDown
       /\ last'.op = "closeConfirmation" =>
              /\ prompt = "pending"
              /\ last'.arg = 1 => (vetoResult' = "veto" /\ isShuttingDown' = isShuttingDown)
              /\ last'.arg = 0 => (vetoResult' = "proceed" /\ isShuttingDown')
    ]_vars

\* C10 witness: the prompt was answered with cancel: a veto, and the
\* service is not shutting down.
C10_Witness ==
    /\ last.op = "closeConfirmation"
    /\ last.arg = 1
    /\ vetoResult = "veto"
    /\ ~isShuttingDown
    /\ terminalTabs # <<>>

\* C11: onWillShutdown with zero instances returns no veto, does not ask the
\* confirmation prompt whatever confirm-on-exit says, and leaves
\* isShuttingDown as it was.
C11_ShutdownWithoutInstances ==
    [][(last'.op = "onWillShutdown" /\ Len(Flatten(terminalTabs)) = 0) =>
        /\ vetoResult' = "proceed"
        /\ prompt' = "idle"
        /\ Count(fired', "showTerminalCloseConfirmation") = 0
        /\ isShuttingDown' = isShuttingDown
    ]_vars

\* C11 witness: onWillShutdown ran with no instance and confirm-on-exit
\* enabled.
C11_Witness ==
    /\ last.op = "onWillShutdown"
    /\ terminalTabs = <<>>
    /\ confirmOnExit
    /\ vetoResult = "proceed"
    /\ ~isShuttingDown

\* C12: onWillShutdown with an instance and confirm-on-exit disabled does
\* not ask the prompt, sets isShuttingDown and returns no veto.
C12_ShutdownWithoutConfirmation ==
    [][(last'.op = "onWillShutdown" /\ Len(Flatten(terminalTabs)) > 0 /\ ~confirmOnExit) =>
        /\ Count(fired', "showTerminalCloseConfirmation") = 0
        /\ prompt' = "idle"
        /\ isShuttingDown'
        /\ vetoResult' = "proceed"
    ]_vars

\* C12 witness: onWillShutdown ran with instances and without confirmation.
C12_Witness ==
    /\ last.op = "onWillShutdown"
    /\ terminalTabs # <<>>
    /\ ~confirmOnExit
    /\ isShuttingDown
    /\ vetoResult = "proceed"

\* C17: setActiveTabByIndex(i) with i >= len(tabs) changes neither
\* activeTabIndex nor any tab's visible flag and fires nothing.
C17_IndexPastEndIgnored ==
    [][(last'.op = "setActiveTabByIndex" /\ last'.arg >= Len(terminalTabs)) =>
        /\ UNCHANGED <<terminalTabs, activeTabIndex>>
        /\ fired' = <<>>
    ]_vars

\* C17 witness: setActiveTabByIndex was called with the length of a
\* non-empty tab list.
C17_Witness ==
    /\ last.op = "setActiveTabByIndex"
    /\ terminalTabs # <<>>
    /\ last.arg = Len(terminalTabs)
    /\ activeTabIndex = 0
    /\ fired = <<>>

\* C18: setActiveTabByIndex(i) with i < 0 changes neither activeTabIndex
\* nor any tab's visible flag and fires no "active tab changed".
C18_NegativeIndexIgnored ==
    [][(last'.op = "setActiveTabByIndex" /\ last'.arg < 0) =>
        /\ UNCHANGED <<terminalTabs, activeTabIndex>>
        /\ Count(fired', "onActiveTabChanged") = 0
    ]_vars

\* setActiveTabToNext applied n times.
RECURSIVE NextTimes(_, _)
NextTimes(s, n) ==
    IF n = 0 THEN s ELSE NextTimes(setActiveTabToNext(s), n - 1)

\* C19: with at least two tabs and a valid active index a, next sets it to
\* (a + 1) mod len and previous to (a - 1) mod len; next then previous, and
\* len times next, return to a; with at most one tab both change nothing
\* and fire nothing.
C19_CyclicRotation ==
    [][LET len == Len(terminalTabs)
           a == activeTabIndex
           valid == 0 <= a /\ a < len
       IN  /\ (last'.op = "setActiveTabToNext" /\ len >= 2 /\ valid) =>
                  activeTabIndex' = (a + 1) % len
           /\ (last'.op = "setActiveTabToPrevious" /\ len >= 2 /\ valid) =>
                  activeTabIndex' = (a - 1 + len) % len
           /\ (last'.op \in {"setActiveTabToNext", "setActiveTabToPrevious"} /\ len <= 1) =>
                  /\ UNCHANGED <<terminalTabs, activeTabIndex>>
                  /\ fired' = <<>>
           /\ (len >= 2 /\ valid) =>
                  /\ setActiveTabToPrevious(setActiveTabToNext(Cur)).activeTabIndex = a
                  /\ NextTimes(Cur, len).activeTabIndex = a
    ]_vars

\* C19 witness: setActiveTabToNext wrapped from the last of three tabs to
\* the first.
C19_Witness ==
    /\ last.op = "setActiveTabToNext"
    /\ Len(terminalTabs) = 3
    /\ activeTabIndex = 0
    /\ terminalTabs[1].visible
    /\ Count(fired, "onActiveTabChanged") = 1

\* C20: splitInstance on an instance no tab tracks creates no instance,
\* leaves tabs, activeTabIndex and visibility as they were and fires
\* nothing.
C20_SplitUntrackedIgnored ==
    [][(last'.op = "splitInstance" /\ last'.arg \notin Tracked) =>
        /\ UNCHANGED <<terminalTabs, activeTabIndex, nextId>>
        /\ fired' = <<>>
    ]_vars

\* C20 witness: splitInstance was called with a disposed instance while
\* other tabs exist.
C20_Witness ==
    /\ last.op = "splitInstance"
    /\ last.arg \notin Tracked
    /\ terminalTabs # <<>>
    /\ fired = <<>>

\* C13: the shutdown latch is false after construction, never goes back to
\* false once true, and goes from false to true only in a shutdown request
\* that found at least one instance and ends without a veto: at once, or
\* when the confirmation it opened is answered.
C13_LatchIsMonotone ==
    /\ ~isShuttingDown
    /\ [][/\ isShuttingDown => isShuttingDown'
          /\ (~isShuttingDown /\ isShuttingDown') =>
                /\ vetoResult' = "proceed"
                /\ \/ last'.op = "onWillShutdown" /\ Len(Flatten(terminalTabs)) >= 1
                   \/ last'.op = "closeConfirmation" /\ prompt = "pending"
       ]_vars

\* C13 witness: a second shutdown request was cancelled by the user and the
\* latch set by the first one is still true.
C13_Witness ==
    /\ last.op = "closeConfirmation"
    /\ last.arg = 1
    /\ vetoResult = "veto"
    /\ isShuttingDown

\* C14: with the restore flag on, restoreTabs on a newly constructed service
\* with the value onShutdown stored rebuilds the tabs that existed at
\* shutdown: as many tabs, in order, each with as many instances carrying
\* the same launch configs in order (every createTerminal succeeding).
C14_RestoreRoundTrip ==
    (/\ last.op = "restoreTabs"
     /\ last.arg = 0
     /\ experimentalRestore
     /\ savedLayout.written)
        => /\ Layout(terminalTabs, shellLaunchConfig) = savedLayout.layout
           /\ Count(fired, "SyntaxError") + Count(fired, "TypeError") = 0

\* C14 witness: two tabs, of two and one instances, one of them with a
\* named launch config, were stored at shutdown and have been restored.
C14_Witness ==
    /\ last.op = "restoreTabs"
    /\ last.arg = 0
    /\ experimentalRestore
    /\ savedLayout.written
    /\ Len(terminalTabs) = 2
    /\ Len(terminalTabs[1].terminalInstances) = 2
    /\ Len(terminalTabs[2].terminalInstances) = 1
    /\ \E id \in DOMAIN shellLaunchConfig : shellLaunchConfig[id] # DefaultLaunchConfig
    /\ \E id \in DOMAIN shellLaunchConfig : shellLaunchConfig[id] = DefaultLaunchConfig

\* The text decodes to a sequence of tab descriptors: an array of objects
\* whose `instances` is an array of objects.
IsTabDescriptors(toks) ==
    LET parsed == JSONParse(toks)
    IN  /\ parsed.ok
        /\ parsed.value.kind = "array"
        /\ \A i \in 1 .. Len(parsed.value.items) :
              LET instances == Member(parsed.value.items[i], "instances")
              IN  /\ instances.kind = "array"
                  /\ \A j \in 1 .. Len(instances.items) : instances.items[j].kind = "object"

\* C15: restoreTabs with no stored value, or with a stored value that does
\* not decode to a sequence of tab descriptors, leaves the tab list as it
\* was, creates no instance and raises no error.
C15_MalformedStorageIgnored ==
    (last.op = "restoreTabs" /\ ~IsTabDescriptors(storage))
        => /\ terminalTabs = <<>>
           /\ nextId = 1
           /\ Count(fired, "SyntaxError") + Count(fired, "TypeError") = 0

\* The instances dispose was called on, in call order.
DisposeCalls(log) ==
    LET calls == SelectSeq(log, LAMBDA e : e.type = "dispose")
    IN  [i \in 1 .. Len(calls) |-> calls[i].arg]

\* C16: onShutdown calls dispose on every tracked instance, in flattened
\* order, also when one of the dispose calls fails.
C16_ShutdownDisposesAll ==
    [][last'.op = "onShutdown" => DisposeCalls(fired') = Flatten(terminalTabs)]_vars

\* C21: setActiveInstance and getInstanceFromId raise an Error for an
\* instance or id that is not in the flattened list, and then the tabs
\* (their active instances and visibility) and activeTabIndex are as before
\* and no event fires; setActiveInstance on a tracked instance makes it the
\* active instance; getInstanceFromId of a tracked id returns that instance.
C21_UnknownInstanceNotFound ==
    [][/\ (last'.op \in {"setActiveInstance", "getInstanceFromId"} /\ last'.arg \notin Tracked)
            => /\ UNCHANGED <<terminalTabs, activeTabIndex>>
               /\ fired' = <<[type |-> "Error", arg |-> last'.arg]>>
       /\ (last'.op = "setActiveInstance" /\ last'.arg \in Tracked)
            => /\ getActiveInstance(Post) = last'.arg
               /\ Count(fired', "Error") = 0
       /\ (last'.op = "getInstanceFromId" /\ last'.arg \in Tracked)
            => /\ fired' = <<[type |-> "return", arg |-> last'.arg]>>
               /\ UNCHANGED <<terminalTabs, activeTabIndex>>
    ]_vars

\* C21 witness: setActiveInstance was called with a disposed instance while
\* two tabs exist and the second one is active.
C21_Witness ==
    /\ last.op = "setActiveInstance"
    /\ last.arg \notin Tracked
    /\ last.arg < nextId
    /\ Len(terminalTabs) = 2
    /\ activeTabIndex = 1
    /\ Count(fired, "Error") = 1

\* C22: getActiveTab and getActiveInstance return none when there is no
\* tab, and whenever there is a tab getActiveTab returns one of the tabs.
C22_ActiveTabIsATab ==
    IF terminalTabs = <<>>
    THEN getActiveTab(Cur) = NoTab /\ getActiveInstance(Cur) = NoInstance
    ELSE \E i \in 1 .. Len(terminalTabs) : getActiveTab(Cur) = terminalTabs[i]

\* C24: a removal of a tab that is not the active tab leaves the tab that
\* getActiveTab returns the same, also when the removed tab comes before
\* the active tab.
C24_RemovalKeepsActiveTab ==
    [][(RemovedIndex # -1 /\ getActiveTab(Cur) # NoTab
        /\ getActiveTab(Cur).id # terminalTabs[RemovedIndex + 1].id)
            => getActiveTab(Post).id = getActiveTab(Cur).id
    ]_vars

\* The step disposes the last instance of the last tab.
LastTabRemoval ==
    /\ last'.op = "disposeInstance"
    /\ Count(fired', "onTabDisposed") = 1
    /\ terminalTabs' = <<>>

\* C25 as stated: while the confirmation is pending isShuttingDown is
\* false, so a last-tab removal in that window requests a panel hide, and
\* isShuttingDown turns true only where the prompt resolves to proceed.
C25_LatchFalseWhilePending ==
    [][/\ prompt' = "pending" => ~isShuttingDown'
       /\ (prompt = "pending" /\ LastTabRemoval) => Count(fired', "hidePanel") = 1
       /\ (prompt = "pending" /\ ~isShuttingDown /\ isShuttingDown')
            => (last'.op = "closeConfirmation" /\ last'.arg = 0)
    ]_vars

\* C25 amended: opening the confirmation and the steps taken while it is
\* pending leave isShuttingDown as it was when onWillShutdown was called
\* (false unless an earlier shutdown request ended with proceed); a
\* last-tab removal in a window entered with isShuttingDown false requests
\* a panel hide; in the window isShuttingDown changes only where the prompt
\* resolves to proceed, and then to true.
C25_LatchKeptWhilePending ==
    [][/\ (last'.op = "onWillShutdown" /\ prompt' = "pending")
            => isShuttingDown' = isShuttingDown
       /\ (prompt = "pending" /\ prompt' = "pending") => isShuttingDown' = isShuttingDown
       /\ (prompt = "pending" /\ ~isShuttingDown /\ LastTabRemoval)
            => Count(fired', "hidePanel") = 1
       /\ (prompt = "pending" /\ isShuttingDown' # isShuttingDown)
            => (last'.op = "closeConfirmation" /\ last'.arg = 0 /\ isShuttingDown')
    ]_vars

\* C25 witness: the last tab was removed while the confirmation is pending
\* and the hide of the panel was requested.
C25_Witness ==
    /\ last.op = "disposeInstance"
    /\ prompt = "pending"
    /\ terminalTabs = <<>>
    /\ ~isShuttingDown
    /\ Count(fired, "hidePanel") = 1

\* No instance appears twice in the flattened list.
NoSharedInstance(tabs) ==
    \A i, j \in 1 .. Len(Flatten(tabs)) : Flatten(tabs)[i] = Flatten(tabs)[j] => i = j

\* C26: splitInstance on a tracked instance appends one new instance to the
\* tab that holds the instance and changes the instances of no other tab
\* (no instance is in two tabs), makes it that tab's active instance,
\* leaves the number of tabs and activeTabIndex as they were, and fires
\* "instances changed" once and "active tab changed" never.
C26_SplitTrackedInstance ==
    [][(last'.op = "splitInstance" /\ last'.arg \in Tracked) =>
        LET owner == getTabForInstance(Cur, last'.arg) + 1
        IN  /\ Len(terminalTabs') = Len(terminalTabs)
            /\ activeTabIndex' = activeTabIndex
            /\ nextId \notin Tracked
            /\ terminalTabs'[owner].terminalInstances =
                   Append(terminalTabs[owner].terminalInstances, nextId)
            /\ TabActiveInstance(terminalTabs'[owner]) = nextId
            /\ \A i \in 1 .. Len(terminalTabs) : i # owner =>
                   /\ terminalTabs'[i].terminalInstances = terminalTabs[i].terminalInstances
                   /\ terminalTabs'[i].activeInstanceIndex = terminalTabs[i].activeInstanceIndex
            /\ NoSharedInstance(terminalTabs) => NoSharedInstance(terminalTabs')
            /\ Count(fired', "onInstancesChanged") = 1
            /\ Count(fired', "onActiveTabChanged") = 0
    ]_vars

\* C26 witness: an instance of the second tab was split while the first tab
\* is the active one.
C26_Witness ==
    /\ last.op = "splitInstance"
    /\ Len(terminalTabs) = 2
    /\ activeTabIndex = 0
    /\ Len(terminalTabs[1].terminalInstances) = 1
    /\ Len(terminalTabs[2].terminalInstances) = 2
    /\ last.arg = terminalTabs[2].terminalInstances[1]
    /\ NoSharedInstance(terminalTabs)

\* C23: showPanel issues no open request when the terminal panel is the
\* visible panel and exactly one otherwise; it never makes the focus call
\* itself: with focus requested, a timer is set at once when the panel is
\* visible, and otherwise when the open request completes; the timer's step
\* focuses the instance that is active when it runs and does nothing when
\* there is none.
C23_ShowPanelDefersFocus ==
    [][/\ last'.op = "showPanel" =>
            /\ Count(fired', "focus") = 0
            /\ IF activePanel = TERMINAL_PANEL_ID
               THEN /\ Count(fired', "openPanel") = 0
                    /\ openRequests' = openRequests
                    /\ timers' = timers + last'.arg
               ELSE /\ Count(fired', "openPanel") = 1
                    /\ openRequests' = Append(openRequests, last'.arg = 1)
                    /\ timers' = timers
       /\ last'.op = "panelOpened" =>
            /\ Count(fired', "focus") = 0
            /\ Count(fired', "openPanel") = 0
            /\ Len(openRequests') = Len(openRequests) - 1
            /\ timers' = timers + last'.arg
       /\ last'.op = "focusTimer" =>
            /\ timers' = timers - 1
            /\ fired' = IF getActiveInstance(Cur) # NoInstance
                        THEN <<[type |-> "focus", arg |-> getActiveInstance(Cur)]>>
                        ELSE <<>>
    ]_vars

\* C23 witness: a timer set by showPanel ran after the open request
\* completed and focused the active instance of the second tab.
C23_Witness ==
    /\ last.op = "focusTimer"
    /\ activePanel = TERMINAL_PANEL_ID
    /\ Len(terminalTabs) = 2
    /\ activeTabIndex = 1
    /\ fired = <<[type |-> "focus", arg |-> getActiveInstance(Cur)]>>

====
